---- MODULE Spec2Model ----
(***************************************************************************)
(* Model of streamlit_app.py: the run-status poller wait_for_run_output    *)
(* (with fetch_runs) and the page script (upload panel and query form),    *)
(* which Streamlit executes top to bottom once per user interaction.       *)
(*                                                                         *)
(* Time is counted in ticks of half a second, so timeout 1.0 s with poll   *)
(* interval 0.5 s is timeout_s = 2, poll_interval_s = 1.                    *)
(* Strings entered in the question box are sequences of characters.        *)
(***************************************************************************)
EXTENDS Integers, Sequences, FiniteSets, TLC

VARIABLES
    \* ---- wait_for_run_output ----
    pc,               \* position in wait_for_run_output
    now,              \* the wall clock, time.time()
    start,            \* local start
    timeout_s,        \* parameter
    poll_interval_s,  \* parameter
    last_status,      \* local last_status
    outcome,          \* how the call ended
    result,           \* the returned mapping, or what the raised error carries
    hist,             \* what each fetch showed: first run's status, EmptyList or HTTPError
    seenOutput,       \* the output field of the first run when a fetch showed success
    sleeps,           \* number of time.sleep(poll_interval_s) calls made
    \* ---- page script ----
    uploaded,         \* value of the file_uploader widget
    question,         \* value of the text_input widget
    top_k,            \* value of the number_input widget
    saved,            \* file names written under uploads/
    ingestSent,       \* number of rag/ingest_pdf events sent
    querySent,        \* number of rag/query_pdf_ai events sent
    lastQuery,        \* data of the latest rag/query_pdf_ai event
    lastIngest,       \* source_id of the latest rag/ingest_pdf event
    uploadsAccepted,  \* number of files the user has selected in the uploader
    submits,          \* number of form submissions with a non-blank question
    lastAction,       \* the interaction that caused the latest script run
    entered,          \* what the user typed into the form at the latest submission
    display,          \* what the query panel shows after the latest script run
    scriptRuns        \* number of script runs so far

pollVars == <<pc, now, start, timeout_s, poll_interval_s, last_status, outcome,
              result, hist, seenOutput, sleeps>>
pageVars == <<uploaded, question, top_k, saved, ingestSent, querySent, lastQuery,
              lastIngest, uploadsAccepted, submits, lastAction, entered, display, scriptRuns>>
vars == <<pollVars, pageVars>>

----------------------------------------------------------------------------
\* Bounds of the model

MaxTimeout == 2
MaxPollInterval == 2
MaxFetchDelay == 1
MaxStartClock == 1
MaxRunList == 2
MaxLen == 3
MaxScriptRuns == 3

\* With a poll interval of at least one tick, fetch number k happens no earlier
\* than k - 1 ticks after the start, and the loop goes on only while no more
\* than timeout_s has elapsed, so a call makes at most timeout_s + 2 fetches:
\* the code as written never asks for a fetch beyond this cap.
MaxFetches == MaxTimeout + 2

----------------------------------------------------------------------------
\* Run statuses and outputs

\* a non-terminal label listed among the success labels
SuccessStatusesM == {"Completed", "Succeeded", "Success", "Finished", "Running"}
SuccessStatuses == {"Completed", "Succeeded", "Success", "Finished"}
\* Cancelled missing from the failure labels
FailureStatusesM == {"Failed"}
FailureStatuses == {"Failed", "Cancelled"}

\* run.get("status") when the key is missing or its value is falsy (None, "")
NoStatus == "NoStatus"
\* the values the status field of a run can show
StatusValues == {"Completed", "Succeeded", "Success", "Finished", "Failed", "Cancelled",
                 "Running", "Queued", NoStatus}

\* run.get("output") when the key is missing or None
NoOutput == "NoOutput"
EmptyMap == "EmptyMap"
AnswerMap == "AnswerMap"
OutputValues == {NoOutput, AnswerMap}

EmptyList == "EmptyList"
HTTPError == "HTTPError"

RunValues == [status : StatusValues, output : OutputValues]

RECURSIVE SeqsUpTo(_, _)
SeqsUpTo(S, n) ==
    IF n = 0 THEN {<<>>}
    ELSE LET shorter == SeqsUpTo(S, n - 1)
         IN  shorter \cup {Append(s, x) : s \in {t \in shorter : Len(t) = n - 1}, x \in S}

\* JSON bodies of the run-status endpoint: with or without the "data" key
\* The first run of a list takes every value; the runs after it, which the
\* poller never reads, take one value of each kind of status.
LaterRunValues == [status : {"Completed", "Failed", "Running"}, output : {AnswerMap}]
RunLists ==
    {<<>>} \cup {<<r>> \o t : r \in RunValues, t \in SeqsUpTo(LaterRunValues, MaxRunList - 1)}
Bodies == {[hasData |-> FALSE, data |-> <<>>]}
          \cup {[hasData |-> TRUE, data |-> d] : d \in RunLists}
HttpCodes == {200, 404, 503}
ErrorBody == [hasData |-> FALSE, data |-> <<>>]
Responses == {[code |-> c, body |-> IF c = 200 THEN b ELSE ErrorBody] : c \in HttpCodes, b \in Bodies}

\* what one fetch showed, as the caller of the endpoint would describe it
Observation(resp) ==
    IF resp.code # 200 THEN HTTPError
    ELSE IF ~resp.body.hasData \/ resp.body.data = <<>> THEN EmptyList
    ELSE resp.body.data[1].status
ObservedOutput(resp, prev) ==
    IF Observation(resp) \in {"Completed", "Succeeded", "Success", "Finished"}
    THEN resp.body.data[1].output ELSE prev

\* only server errors raise
RaisesForStatusM(code) == code >= 500 /\ code < 600

\* resp.raise_for_status()
RaisesForStatus(code) == code >= 400 /\ code < 600

\* fetch_runs: raise_for_status raises, or data.get("data", []) is returned
fetch_runs(resp) ==
    IF RaisesForStatus(resp.code) THEN [raised |-> TRUE, runs |-> <<>>]
    ELSE IF ~resp.body.hasData THEN [raised |-> FALSE, runs |-> <<>>]
    ELSE [raised |-> FALSE, runs |-> resp.body.data]

\* a missing status rendered as "unknown"
FormatM(s) == IF s = NoStatus THEN "unknown" ELSE s

\* str() applied by the f-string of the Timeout message
Format(s) == IF s = NoStatus THEN "None" ELSE s

\* run.get("output") or {}
OutputOrEmpty(o) == IF o = NoOutput THEN EmptyMap ELSE o

\* last_status = status: a poll without a status erases the remembered one
StatusOrM(status, last) == status

\* status or last_status
StatusOr(status, last) == IF status # NoStatus THEN status ELSE last

\* the operands of the subtraction swapped
TimedOutM(t, st, limit) == st - t > limit

\* time.time() - start > timeout_s
TimedOut(t, st, limit) == t - st > limit

----------------------------------------------------------------------------
\* Page widgets

NoFile == "NoFile"
Files == {"a.pdf", "b.pdf"}

\* st.number_input(min_value=1, max_value=20, value=5)
TopKMin == 1
TopKMax == 20
TopKDefault == 5
TypedNumbers == {TopKMin - 1, TopKMin, TopKDefault, TopKMax, TopKMax + 1}

Whitespace == {" "}
Chars == {" ", "a"}
Questions == SeqsUpTo(Chars, MaxLen)

RECURSIVE LStrip(_)
LStrip(s) == IF s # <<>> /\ Head(s) \in Whitespace THEN LStrip(Tail(s)) ELSE s

RECURSIVE RStrip(_)
RStrip(s) ==
    IF s # <<>> /\ s[Len(s)] \in Whitespace THEN RStrip(SubSeq(s, 1, Len(s) - 1)) ELSE s

\* str.strip()
Strip(s) == RStrip(LStrip(s))

\* a number_input without limits
NumberInputM(raw, current) == {raw}

\* the number the number_input widget holds after the user types raw: a number
\* outside min_value..max_value is either pulled to the nearest limit or not
\* committed, depending on the Streamlit version
NumberInput(raw, current) ==
    IF raw >= TopKMin /\ raw <= TopKMax THEN {raw}
    ELSE {IF raw < TopKMin THEN TopKMin ELSE TopKMax, current}

\* the question tested without strip()
AcceptedM(submitted, q) == submitted /\ q # <<>>

\* line 194: submitted and question.strip()
Accepted(submitted, q) == submitted /\ Strip(q) # <<>>

\* the question sent without strip()
QueryDataM(q, k) == [question |-> q, top_k |-> k]

\* line 196 and send_rag_query_event: the data of the rag/query_pdf_ai event
QueryData(q, k) == [question |-> Strip(q), top_k |-> k]

WaitOutcomes == {"Returned", "RunFailed", "Timeout", "HTTPError"}

----------------------------------------------------------------------------
\* wait_for_run_output

\* the page before any interaction: widgets at their defaults, nothing sent
PageIdle ==
    /\ uploaded = NoFile
    /\ question = <<>>
    /\ top_k = TopKDefault
    /\ saved = {}
    /\ ingestSent = 0
    /\ querySent = 0
    /\ lastQuery = [question |-> <<>>, top_k |-> 0]
    /\ lastIngest = NoFile
    /\ uploadsAccepted = 0
    /\ submits = 0
    /\ lastAction = "None"
    /\ entered = [question |-> <<>>, top_k |-> TopKDefault]
    /\ display = "form"
    /\ scriptRuns = 0

InitPoll ==
    /\ pc = "call"
    /\ now \in 0..MaxStartClock
    /\ start = 0
    /\ timeout_s \in 0..MaxTimeout
    /\ poll_interval_s \in 1..MaxPollInterval
    /\ last_status = NoStatus
    /\ outcome = "None"
    /\ result = "None"
    /\ hist = <<>>
    /\ seenOutput = NoOutput
    /\ sleeps = 0
    /\ PageIdle

\* lines 173-174
Call ==
    /\ pc = "call"
    /\ start' = now
    /\ last_status' = NoStatus
    /\ pc' = "fetch"
    /\ UNCHANGED <<now, timeout_s, poll_interval_s, outcome, result, hist, seenOutput, sleeps>>
    /\ UNCHANGED pageVars

\* lines 176-184: one fetch and the inspection of what it returned
Poll ==
    /\ pc = "fetch"
    /\ Len(hist) < MaxFetches
    /\ \E resp \in Responses, delay \in 0..MaxFetchDelay :
        LET fetched == fetch_runs(resp)
            runs == fetched.runs
        IN
        /\ now' = now + delay
        /\ hist' = Append(hist, Observation(resp))
        /\ seenOutput' = ObservedOutput(resp, seenOutput)
        /\ IF fetched.raised
           THEN /\ outcome' = "HTTPError"
                /\ result' = ToString(resp.code)
                /\ pc' = "done"
                /\ UNCHANGED last_status
           ELSE IF runs = <<>>
           THEN /\ pc' = "check"
                /\ UNCHANGED <<last_status, outcome, result>>
           ELSE LET run == runs[1]
                    status == run.status
                IN  /\ last_status' = StatusOr(status, last_status)
                    /\ IF status \in SuccessStatuses
                       THEN /\ outcome' = "Returned"
                            /\ result' = OutputOrEmpty(run.output)
                            /\ pc' = "done"
                       ELSE IF status \in FailureStatuses
                       THEN /\ outcome' = "RunFailed"
                            /\ result' = status
                            /\ pc' = "done"
                       ELSE /\ pc' = "check"
                            /\ UNCHANGED <<outcome, result>>
    /\ UNCHANGED <<start, timeout_s, poll_interval_s, sleeps>>
    /\ UNCHANGED pageVars

\* lines 185-186
CheckTimeout ==
    /\ pc = "check"
    /\ IF TimedOut(now, start, timeout_s)
       THEN /\ outcome' = "Timeout"
            /\ result' = Format(last_status)
            /\ pc' = "done"
       ELSE /\ pc' = "sleep"
            /\ UNCHANGED <<outcome, result>>
    /\ UNCHANGED <<now, start, timeout_s, poll_interval_s, last_status, hist, seenOutput, sleeps>>
    /\ UNCHANGED pageVars

\* time.sleep(poll_interval_s): the clock after the sleep
SleepUntil(t, interval) == t + interval

\* line 187
Sleep ==
    /\ pc = "sleep"
    /\ now' = SleepUntil(now, poll_interval_s)
    /\ sleeps' = sleeps + 1
    /\ pc' = "fetch"
    /\ UNCHANGED <<start, timeout_s, poll_interval_s, last_status, outcome, result, hist, seenOutput>>
    /\ UNCHANGED pageVars

NextPoll == Call \/ Poll \/ CheckTimeout \/ Sleep

SpecPoll == InitPoll /\ [][NextPoll]_vars

\* the script thread always takes its next step
SpecPollFair == SpecPoll /\ WF_vars(NextPoll)

----------------------------------------------------------------------------
\* The page script: Streamlit runs it from top to bottom after every interaction

\* lines 134-143: the upload panel
UploadPanel(file) ==
    IF file # NoFile
    THEN /\ saved' = saved \cup {file}
         /\ ingestSent' = ingestSent + 1
         /\ lastIngest' = file
    ELSE UNCHANGED <<saved, ingestSent, lastIngest>>

\* lines 189-206: the query form; the wait ends in one of the poller's outcomes
QueryPanel(submitted, q, k) ==
    IF Accepted(submitted, q)
    THEN /\ querySent' = querySent + 1
         /\ lastQuery' = QueryData(q, k)
         /\ \E o \in WaitOutcomes :
               display' = IF o = "Returned" THEN "answer" ELSE "exception"
    ELSE /\ display' = "form"
         /\ UNCHANGED <<querySent, lastQuery>>

ScriptRun(file, submitted, q, k) ==
    /\ UploadPanel(file)
    /\ QueryPanel(submitted, q, k)
    /\ scriptRuns' = scriptRuns + 1

InitPage ==
    /\ PageIdle
    /\ pc = "call" /\ now = 0 /\ start = 0 /\ timeout_s = 0 /\ poll_interval_s = 1
    /\ last_status = NoStatus /\ outcome = "None" /\ result = "None"
    /\ hist = <<>> /\ seenOutput = NoOutput /\ sleeps = 0

\* the user picks a file in the uploader
SelectFile ==
    /\ scriptRuns < MaxScriptRuns
    /\ \E f \in Files :
        /\ uploaded' = f
        /\ uploadsAccepted' = uploadsAccepted + 1
        /\ ScriptRun(f, FALSE, question, top_k)
    /\ lastAction' = "select"
    /\ UNCHANGED <<question, top_k, submits, entered>>
    /\ UNCHANGED pollVars

\* the user removes the file from the uploader
ClearFile ==
    /\ scriptRuns < MaxScriptRuns
    /\ uploaded # NoFile
    /\ uploaded' = NoFile
    /\ ScriptRun(NoFile, FALSE, question, top_k)
    /\ lastAction' = "clear"
    /\ UNCHANGED <<question, top_k, uploadsAccepted, submits, entered>>
    /\ UNCHANGED pollVars

\* the user fills in the form and presses Submit Query
SubmitForm ==
    /\ scriptRuns < MaxScriptRuns
    /\ \E q \in Questions, raw \in TypedNumbers :
        \E k \in NumberInput(raw, top_k) :
            /\ question' = q
            /\ top_k' = k
            /\ entered' = [question |-> q, top_k |-> raw]
            /\ submits' = IF \E i \in 1..Len(q) : q[i] \notin Whitespace
                          THEN submits + 1 ELSE submits
            /\ ScriptRun(uploaded, TRUE, q, k)
    /\ lastAction' = "submit"
    /\ UNCHANGED <<uploaded, uploadsAccepted>>
    /\ UNCHANGED pollVars

NextPage == SelectFile \/ ClearFile \/ SubmitForm

SpecPage == InitPage /\ [][NextPage]_vars

----------------------------------------------------------------------------
\* Vocabulary of the properties

SuccessLabels == {"Completed", "Succeeded", "Success", "Finished"}
FailureLabels == {"Failed", "Cancelled"}
TerminalLabels == SuccessLabels \cup FailureLabels

\* positions of hist at which a non-terminal status was seen
StatusPolls == {i \in 1..Len(hist) : hist[i] \notin TerminalLabels \cup {EmptyList, NoStatus, HTTPError}}
LatestStatusPoll == CHOOSE i \in StatusPolls : \A j \in StatusPolls : j <= i

NonBlank(q) == \E i \in 1..Len(q) : q[i] \notin Whitespace

\* e is q without its leading and trailing whitespace
IsStripOf(e, q) ==
    /\ e = <<>> \/ (e[1] \notin Whitespace /\ e[Len(e)] \notin Whitespace)
    /\ \E i \in 0..Len(q) :
        /\ i + Len(e) <= Len(q)
        /\ SubSeq(q, i + 1, i + Len(e)) = e
        /\ \A n \in 1..i : q[n] \in Whitespace
        /\ \A n \in (i + Len(e) + 1)..Len(q) : q[n] \in Whitespace

----------------------------------------------------------------------------
\* Properties of wait_for_run_output (SpecPoll, SpecPollFair)

\* C1: the call returns an output mapping if and only if the latest fetch showed
\* a success status in the first run; a success status is only ever the last
\* thing fetched (the call returns on the first poll that shows one, after one
\* sleep per earlier fetch), and what is returned is that run's output, or an
\* empty mapping when it has none.
ReturnsIffSuccess ==
    /\ (outcome = "Returned") <=> (hist # <<>> /\ hist[Len(hist)] \in SuccessLabels)
    /\ \A i \in 1..Len(hist) :
          hist[i] \in SuccessLabels => i = Len(hist) /\ pc = "done" /\ sleeps = i - 1
    /\ outcome = "Returned" =>
          result = (IF seenOutput = NoOutput THEN EmptyMap ELSE seenOutput)

\* the scenario Running, Running, Completed: returned after exactly 3 fetches
ReturnedOnThirdFetch ==
    /\ outcome = "Returned"
    /\ hist = <<"Running", "Running", "Completed">>
    /\ result = AnswerMap

\* C2: the call fails with the run-failed error, carrying the observed status,
\* exactly when the latest fetch showed Failed or Cancelled in the first run;
\* nothing is fetched and no sleep is made after that observation.
FailsIffFailure ==
    /\ (outcome = "RunFailed") <=> (hist # <<>> /\ hist[Len(hist)] \in FailureLabels)
    /\ \A i \in 1..Len(hist) :
          hist[i] \in FailureLabels => i = Len(hist) /\ pc = "done" /\ sleeps = i - 1
    /\ outcome = "RunFailed" => result = hist[Len(hist)]

RunFailedAfterPolling ==
    /\ outcome = "RunFailed"
    /\ Len(hist) >= 2
    /\ hist[Len(hist)] = "Cancelled"
    /\ result = "Cancelled"

\* C3: the loop goes on to sleep only while no more than timeout_s has elapsed;
\* otherwise, with no terminal status seen, the call fails with Timeout, and
\* the status the error reports is the most recent non-terminal status seen,
\* also when later polls showed an empty run list or a run without a status.
TimeoutReportsLatestStatus ==
    /\ pc = "sleep" => now - start <= timeout_s
    /\ outcome = "Timeout" =>
          /\ now - start > timeout_s
          /\ \A i \in 1..Len(hist) : hist[i] \notin TerminalLabels
          /\ StatusPolls # {} => result = hist[LatestStatusPoll]

TimeoutAfterStatusThenNone ==
    /\ outcome = "Timeout"
    /\ Len(hist) >= 3
    /\ hist[1] = "Queued"
    /\ hist[2] = "Running"
    /\ hist[Len(hist)] \in {EmptyList, NoStatus}
    /\ result = "Running"

\* C4 as stated: a Timeout with no status ever observed carries "unknown".
TimeoutCarriesUnknown ==
    (outcome = "Timeout" /\ StatusPolls = {}) => result = "unknown"

\* C4 as amended: a Timeout with no status ever observed carries the
\* rendering of Python's None, "None".
TimeoutCarriesNone ==
    (outcome = "Timeout" /\ StatusPolls = {}) => result = "None"

\* timeout 1.0 s, poll interval 0.5 s, every poll an empty run list
TimeoutOnEmptyLists ==
    /\ outcome = "Timeout"
    /\ timeout_s = 2
    /\ poll_interval_s = 1
    /\ Len(hist) >= 3
    /\ \A i \in 1..Len(hist) : hist[i] = EmptyList
    /\ result = "None"

\* C7: a non-success HTTP status is only ever the last thing fetched: the call
\* has ended with the HTTP error of that status, without a sleep after it,
\* whatever remains of the timeout.
HttpErrorAborts ==
    /\ \A i \in 1..Len(hist) :
          hist[i] = HTTPError =>
              /\ i = Len(hist)
              /\ pc = "done"
              /\ outcome = "HTTPError"
              /\ sleeps = i - 1
    /\ outcome = "HTTPError" =>
          hist[Len(hist)] = HTTPError /\ result \in {"404", "503"}

HttpErrorBeforeTimeout ==
    /\ outcome = "HTTPError"
    /\ Len(hist) >= 2
    /\ now - start < timeout_s
    /\ result = "503"

\* C10: every call eventually ends, in one of the four outcomes.
EventuallyEnds == <>(pc = "done" /\ outcome \in WaitOutcomes)

\* a run that never becomes terminal: the call ended with Timeout
NeverTerminalEndsInTimeout ==
    /\ pc = "done"
    /\ outcome = "Timeout"
    /\ Len(hist) >= 3
    /\ \A i \in 1..Len(hist) : hist[i] \in {"Running", "Queued"}

----------------------------------------------------------------------------
\* Properties of the page script (SpecPage)

\* C5: exactly one rag/ingest_pdf event has been sent per accepted upload.
OneIngestPerUpload == ingestSent = uploadsAccepted

\* C6: a script run sends exactly one rag/query_pdf_ai event when it was caused
\* by a form submission with a non-blank question, and none otherwise.
OneQueryPerNonBlankSubmit ==
    [][querySent' = querySent +
         (IF lastAction' = "submit" /\ NonBlank(entered'.question) THEN 1 ELSE 0)]_vars

BlankSubmitAfterQuery ==
    /\ querySent = 1
    /\ submits = 1
    /\ scriptRuns = 3
    /\ lastAction = "submit"
    /\ entered.question = <<" ", " ">>

\* C8: the data of a dispatched rag/query_pdf_ai event has a non-empty question
\* and a top_k between 1 and 20.
QueryEventInRange ==
    querySent > 0 =>
        /\ lastQuery.question # <<>>
        /\ lastQuery.top_k >= 1
        /\ lastQuery.top_k <= 20

Typed21Sent20 ==
    /\ lastAction = "submit"
    /\ NonBlank(entered.question)
    /\ entered.top_k = 21
    /\ lastQuery.top_k = 20

\* C9 as stated: the event carries the question exactly as entered, and the
\* entered number.
QueryAsEntered ==
    (lastAction = "submit" /\ NonBlank(entered.question)) =>
        /\ lastQuery.question = entered.question
        /\ entered.top_k \in TopKMin..TopKMax => lastQuery.top_k = entered.top_k

\* C9 as amended: the event carries the entered question without its leading
\* and trailing whitespace, and the entered number.
QueryStripped ==
    (lastAction = "submit" /\ NonBlank(entered.question)) =>
        /\ IsStripOf(lastQuery.question, entered.question)
        /\ lastQuery.top_k = top_k
        /\ entered.top_k \in TopKMin..TopKMax => lastQuery.top_k = entered.top_k

PaddedQuestionSent ==
    /\ lastAction = "submit"
    /\ entered = [question |-> <<" ", "a", " ">>, top_k |-> 20]
    /\ lastQuery = [question |-> <<"a">>, top_k |-> 20]

====
